---- MODULE Spec2Model ----
(***************************************************************************)
(* Model of the /chat handler of the voice chatbot backend (src/app.py).   *)
(*                                                                         *)
(* Text is the sequence of its characters' code points (ord), so that      *)
(* str.strip() and len() are computed on real text and MAX_MESSAGE_LENGTH  *)
(* keeps its value: 32 is a space, 10 "\n", 13 "\r", 97 "a".               *)
(* A JSON value is a record [t, v]: t is its Python type after parsing     *)
(* ("null", "bool", "num", "str", "list", "dict") and v its content; a     *)
(* dict's content is the sequence of its <<key, value>> members.  A raised *)
(* Python exception is a record [exc |-> <class name>].                    *)
(***************************************************************************)
EXTENDS Integers, Sequences, FiniteSets, TLC

VARIABLES
    api_key,        \* os.getenv("OPENROUTER_API_KEY") of the process
    pc,             \* "idle" | "calling" (requests.post in flight) | "done"
    request,        \* the body of the request being handled
    user_message,   \* chat's local user_message once the guards passed
    payload,        \* the payload handed to requests.post
    post_calls,     \* requests.post calls made while handling this request
    upstream,       \* how the upstream service answers this request's call:
                    \* the exception requests.post raises, or its response
    response        \* what the handler returned (or the exception it raised)

vars == <<api_key, pc, request, user_message, payload, post_calls, upstream, response>>

---------------------------------------------------------------------------
\* Program constants

MAX_MESSAGE_LENGTH == 2000

MODEL_ID == "openai/gpt-4o-mini"

\* The fixed instruction text; its content plays no part in control flow.
SYSTEM_PROMPT == "You are a professional voice assistant. ..."

---------------------------------------------------------------------------
\* Bounds of the explored inputs

\* Longest run of whitespace put before and after a message's core.
MaxPad == 1

\* How far beyond MAX_MESSAGE_LENGTH the explored message cores go.
MaxOver == 1

---------------------------------------------------------------------------
\* Python values

None == [t |-> "null"]

JBool(b) == [t |-> "bool", v |-> b]

JNum(n) == [t |-> "num", v |-> n]

JStr(s) == [t |-> "str", v |-> s]

JList(l) == [t |-> "list", v |-> l]

JDict(members) == [t |-> "dict", v |-> members]

Raise(cls) == [exc |-> cls]

IsExc(x) == "exc" \in DOMAIN x

\* bool(x): None, False, 0, "", [] and {} are falsy.
Truthy(x) ==
    CASE x.t = "null" -> FALSE
      [] x.t = "bool" -> x.v
      [] x.t = "num"  -> x.v # 0
      [] OTHER        -> Len(x.v) > 0

\* The characters str.strip() removes, those with str.isspace(): \t \n \x0b
\* \x0c \r, \x1c-\x1f, space, \x85, U+00A0, U+1680, U+2000-U+200A, U+2028,
\* U+2029, U+202F, U+205F, U+3000.
Whitespace ==
    {9, 10, 11, 12, 13, 28, 29, 30, 31, 32, 133, 160, 5760,
     8192, 8193, 8194, 8195, 8196, 8197, 8198, 8199, 8200, 8201, 8202,
     8232, 8233, 8239, 8287, 12288}

\* str.strip() scans inward from both ends while it sees whitespace:
\* Leading and Trailing are the number of characters each scan passes.
AllWhitespace(s) == \A i \in 1..Len(s) : s[i] \in Whitespace

Leading(s) ==
    CHOOSE k \in 0..(Len(s) - 1) :
        s[k + 1] \notin Whitespace /\ \A j \in 1..k : s[j] \in Whitespace

Trailing(s) ==
    CHOOSE k \in 0..(Len(s) - 1) :
        s[Len(s) - k] \notin Whitespace
        /\ \A j \in 1..k : s[Len(s) + 1 - j] \in Whitespace

\* Faulty variant of strip: the text is used as received.
NoStrip(s) == s

\* str.strip()
strip(s) ==
    IF AllWhitespace(s) THEN <<>>
    ELSE SubSeq(s, 1 + Leading(s), Len(s) - Trailing(s))

\* The indices of dict members with this key; json keeps the last one.
KeyIndices(members, key) == {i \in 1..Len(members) : members[i][1] = key}

LastIndex(S) == CHOOSE i \in S : \A j \in S : j <= i

\* dict.get(key, default); any other type has no attribute 'get'.
DictGet(x, key, default) ==
    IF x.t # "dict" THEN Raise("AttributeError")
    ELSE IF KeyIndices(x.v, key) = {} THEN default
    ELSE x.v[LastIndex(KeyIndices(x.v, key))][2]

\* x[key] for a string key.
GetItemStr(x, key) ==
    IF IsExc(x) THEN x
    ELSE IF x.t = "dict"
         THEN IF KeyIndices(x.v, key) = {} THEN Raise("KeyError")
              ELSE x.v[LastIndex(KeyIndices(x.v, key))][2]
         ELSE Raise("TypeError")

\* x[i] for an integer i >= 0; a parsed JSON object has string keys only.
GetItemInt(x, i) ==
    IF IsExc(x) THEN x
    ELSE CASE x.t = "dict" -> Raise("KeyError")
           [] x.t = "list" -> IF i < Len(x.v) THEN x.v[i + 1] ELSE Raise("IndexError")
           [] x.t = "str"  -> IF i < Len(x.v) THEN JStr(<<x.v[i + 1]>>) ELSE Raise("IndexError")
           [] OTHER        -> Raise("TypeError")

\* x.strip(); only str has the method.
StripMethod(x) ==
    IF IsExc(x) THEN x
    ELSE IF x.t = "str" THEN JStr(strip(x.v))
    ELSE Raise("AttributeError")

---------------------------------------------------------------------------
\* Responses of the handler

\* jsonify({"error": text}), status
ErrorResponse(status, text) == [status |-> status, body |-> [error |-> text]]

\* jsonify({"reply": reply_text}), 200
ReplyResponse(reply_text) == [status |-> 200, body |-> [reply |-> reply_text]]

\* An exception no except clause of chat catches leaves the handler; the
\* framework answers 500 with a page of its own (with debug=True, the
\* interactive traceback).
Unhandled(cls) == [status |-> 500, body |-> [unhandled |-> cls]]

---------------------------------------------------------------------------
\* The guards of chat

\* Faulty variant of KeyMissing: only an unset key counts, an empty one passes.
KeyMissingUnsetOnly(key) == key = None

\* `not api_key`: unset (None) or empty.
KeyMissing(key) == ~Truthy(key)

\* request.get_json(silent=True): None unless the body parses as JSON
\* (sent with a JSON content type), else the parsed value.
get_json(raw) == IF raw.parsed THEN raw.value ELSE None

\* Faulty variant of TooLong: a message of exactly the limit is refused.
TooLongOffByOne(message) == Len(message) >= MAX_MESSAGE_LENGTH

\* Faulty variant of TooLong: one character beyond the limit is let through.
TooLongLax(message) == Len(message) > MAX_MESSAGE_LENGTH + 1

TooLong(message) == Len(message) > MAX_MESSAGE_LENGTH

Guard34(data) ==
    LET field == DictGet(data, "message", JStr(<<>>)) IN
    IF IsExc(field) THEN [done |-> TRUE, response |-> Unhandled(field.exc)]
    ELSE IF field.t # "str"
    THEN [done |-> TRUE,
          response |-> ErrorResponse(400, "The 'message' field must be a string.")]
    ELSE LET message == strip(field.v) IN
    IF message = <<>>
    THEN [done |-> TRUE, response |-> ErrorResponse(400, "Message cannot be empty.")]
    ELSE IF TooLong(message)
    THEN [done |-> TRUE,
          response |-> ErrorResponse(400,
              "Message exceeds the " \o ToString(MAX_MESSAGE_LENGTH) \o "-character limit.")]
    ELSE [done |-> FALSE, user_message |-> message]

Guards(key, raw) ==
    IF KeyMissing(key)
    THEN [done |-> TRUE,
          response |-> ErrorResponse(500, "Server configuration error: API key is missing.")]
    ELSE IF ~Truthy(get_json(raw))
    THEN [done |-> TRUE, response |-> ErrorResponse(400, "Request body must be JSON.")]
    ELSE Guard34(get_json(raw))

\* temperature 0.7 is kept as the pair <<7, 10>>.
BuildPayload(message) ==
    [model |-> MODEL_ID,
     messages |-> <<[role |-> "system", content |-> SYSTEM_PROMPT],
                    [role |-> "user", content |-> message]>>,
     temperature |-> <<7, 10>>,
     max_tokens |-> 512]

---------------------------------------------------------------------------
\* The upstream response

\* requests' Response.ok: raise_for_status() raises for 400 <= status < 600.
ok(status_code) == ~(400 <= status_code /\ status_code < 600)

\* Faulty variant of StatusError: 403 falls through to the generic message.
StatusErrorNo403(status_code) ==
    IF status_code = 429
    THEN ErrorResponse(502, "API rate limit reached. Please wait a moment and try again.")
    ELSE IF status_code = 401
    THEN ErrorResponse(502, "API key is invalid or unauthorised.")
    ELSE ErrorResponse(502,
             "AI service returned an error (HTTP " \o ToString(status_code) \o ").")

StatusError(status_code) ==
    IF status_code = 429
    THEN ErrorResponse(502, "API rate limit reached. Please wait a moment and try again.")
    ELSE IF status_code \in {401, 403}
    THEN ErrorResponse(502, "API key is invalid or unauthorised.")
    ELSE ErrorResponse(502,
             "AI service returned an error (HTTP " \o ToString(status_code) \o ").")

\* response.json(): ValueError (JSONDecodeError) when the body is not JSON.
ResponseJson(resp) == IF resp.parsed THEN resp.value ELSE Raise("ValueError")

\* result["choices"][0]["message"]["content"].strip()
ExtractReply(resp) ==
    StripMethod(
        GetItemStr(
            GetItemStr(GetItemInt(GetItemStr(ResponseJson(resp), "choices"), 0),
                       "message"),
            "content"))

\* The exception classes the except clause around the extraction names.
CaughtByExtract == {"KeyError", "IndexError", "ValueError", "TypeError"}

\* chat from `if not response.ok` to its end.
HandleResponse(resp) ==
    IF ~ok(resp.status_code) THEN StatusError(resp.status_code)
    ELSE LET reply_text == ExtractReply(resp) IN
         IF IsExc(reply_text)
         THEN IF reply_text.exc \in CaughtByExtract
              THEN ErrorResponse(502, "Received an unexpected response from the AI service.")
              ELSE Unhandled(reply_text.exc)
         ELSE IF ~Truthy(reply_text)
         THEN ErrorResponse(502, "The AI returned an empty response. Please try rephrasing.")
         ELSE ReplyResponse(reply_text.v)

---------------------------------------------------------------------------
\* Explored inputs

Rep(c, n) == [i \in 1..n |-> c]

\* Runs of whitespace of length 0..MaxPad.
\* The whitespace put around a core: a space and "\r".
PadChars == {32, 13}

Pads == UNION {[1..n -> PadChars] : n \in 0..MaxPad}

\* Message cores: empty, short, with inner whitespace, and around the limit.
Cores ==
    {<<>>, <<97>>, <<97, 32, 98>>}
    \cup {Rep(97, n) : n \in (MAX_MESSAGE_LENGTH - 1)..(MAX_MESSAGE_LENGTH + MaxOver)}

\* U+200B (zero width space) and U+FEFF: not whitespace to str.isspace().
NotWhitespace == {8203, 65279}

Messages ==
    {l \o c \o r : l \in Pads, c \in Cores, r \in Pads}
    \cup {Rep(32, MAX_MESSAGE_LENGTH + 1)}
    \cup {<<c>> : c \in Whitespace \cup NotWhitespace}
    \cup {<<c, 97, c>> : c \in Whitespace \cup NotWhitespace}

\* Values of a "message" member that are not strings.
NonStrings == {None, JNum(5), JBool(TRUE), JList(<<>>), JDict(<<>>)}

\* JSON objects sent as the request body.
RequestObjects ==
    {JDict(<<>>), JDict(<< <<"text", JStr(<<97>>)>> >>)}
    \cup {JDict(<< <<"message", m>> >>) : m \in NonStrings}
    \cup {JDict(<< <<"message", JStr(s)>> >>) : s \in Messages}

\* JSON values sent as the request body that are not objects.
RequestNonObjects ==
    {None, JBool(FALSE), JBool(TRUE), JNum(0), JNum(5), JStr(<<>>), JStr(<<97>>),
     JList(<<>>), JList(<<JNum(1)>>)}

Parsed(value) == [parsed |-> TRUE, value |-> value]

\* A body that is not JSON text (or is not sent as JSON).
NotJson == [parsed |-> FALSE]

RequestBodies ==
    {NotJson} \cup {Parsed(x) : x \in RequestObjects \cup RequestNonObjects}

\* OPENROUTER_API_KEY: unset, empty, set.
Keys == {None, JStr(<<>>), JStr(<<107>>)}

Choices(list) == JDict(<< <<"choices", list>> >>)

Message(m) == Choices(JList(<< JDict(<< <<"message", m>> >>) >>))

Content(c) == Message(JDict(<< <<"content", c>> >>))

ReplyTexts ==
    {<<>>, <<32>>, <<13, 10>>, <<104, 105>>, <<32, 104, 105, 10>>,
     <<104, 105, 13, 10>>, <<97, 32, 98>>, <<8203>>}

\* Bodies of an upstream response.
UpstreamBodies ==
    {NotJson}
    \cup {Parsed(x) : x \in
            {None, JNum(5), JStr(<<97>>), JList(<<>>), JDict(<<>>),
             JDict(<< <<"error", JStr(<<101>>)>> >>),
             Choices(None), Choices(JList(<<>>)), Choices(JDict(<<>>)),
             Choices(JStr(<<97>>)), Choices(JList(<<None>>)),
             Choices(JList(<<JDict(<<>>)>>)),
             Message(None), Message(JStr(<<97>>)), Message(JDict(<<>>)),
             Content(None), Content(JNum(5)), Content(JList(<<>>)),
             JDict(<< <<"choices", JList(<< JDict(<< <<"message",
                          JDict(<< <<"content", JStr(<<104, 105>>)>> >>)>> >>),
                        JDict(<< <<"message",
                          JDict(<< <<"content", JStr(<<110, 111>>)>> >>)>> >>) >>)>> >>)}
            \cup {Content(JStr(s)) : s \in ReplyTexts}}

StatusCodes == {200, 201, 304, 400, 401, 403, 404, 429, 500, 503}

\* The response bodies paired with an error status, which chat only logs.
ErrorBodies == {NotJson, Parsed(JDict(<< <<"error", JStr(<<101>>)>> >>))}

UpstreamResponses ==
    {[status_code |-> c, parsed |-> b.parsed, value |-> IF b.parsed THEN b.value ELSE None]
        : c \in {s \in StatusCodes : ok(s)}, b \in UpstreamBodies}
    \cup
    {[status_code |-> c, parsed |-> b.parsed, value |-> IF b.parsed THEN b.value ELSE None]
        : c \in {s \in StatusCodes : ~ok(s)}, b \in ErrorBodies}

\* What requests.post can do: raise, or return a response.
UpstreamOutcomes ==
    {Raise("Timeout"), Raise("ConnectionError"), Raise("RequestException")}
    \cup UpstreamResponses

NoRequest == [none |-> "request"]

NoPayload == [none |-> "payload"]

NoUpstream == [none |-> "upstream"]

NoResponse == [none |-> "response"]

---------------------------------------------------------------------------
\* The handler as a state machine

Init ==
    /\ api_key \in Keys
    /\ pc = "idle"
    /\ request = NoRequest
    /\ user_message = <<>>
    /\ payload = NoPayload
    /\ post_calls = 0
    /\ upstream = NoUpstream
    /\ response = NoResponse

\* A POST /chat arrives while the upstream service is in some condition: chat
\* runs from its first line to a guard's return or to the requests.post call.
chat_guards ==
    /\ pc = "idle"
    /\ \E raw \in RequestBodies :
         LET g == Guards(api_key, raw) IN
         /\ request' = raw
         /\ IF g.done
            THEN /\ pc' = "done"
                 /\ response' = g.response
                 /\ UNCHANGED <<user_message, payload, post_calls>>
            ELSE /\ pc' = "calling"
                 /\ user_message' = g.user_message
                 /\ payload' = BuildPayload(g.user_message)
                 /\ post_calls' = post_calls + 1
                 /\ UNCHANGED response
    /\ upstream' \in UpstreamOutcomes
    /\ UNCHANGED api_key

\* Faulty variant of chat_timeout: the call is made again after a timeout.
chat_timeout_retry ==
    /\ pc = "calling"
    /\ upstream = Raise("Timeout")
    /\ post_calls < 3
    /\ post_calls' = post_calls + 1
    /\ UNCHANGED <<api_key, pc, request, user_message, payload, upstream, response>>

\* requests.post raises Timeout.
chat_timeout ==
    /\ pc = "calling"
    /\ upstream = Raise("Timeout")
    /\ pc' = "done"
    /\ response' = ErrorResponse(504,
           "The AI service took too long to respond. Please try again.")
    /\ UNCHANGED <<api_key, request, user_message, payload, post_calls, upstream>>

\* requests.post raises ConnectionError.
chat_connection_error ==
    /\ pc = "calling"
    /\ upstream = Raise("ConnectionError")
    /\ pc' = "done"
    /\ response' = ErrorResponse(502,
           "Could not reach the AI service. Check your internet connection.")
    /\ UNCHANGED <<api_key, request, user_message, payload, post_calls, upstream>>

\* requests.post raises a RequestException that is neither (TooManyRedirects,
\* ChunkedEncodingError, ...): no except clause names it.
chat_request_exception ==
    /\ pc = "calling"
    /\ upstream = Raise("RequestException")
    /\ pc' = "done"
    /\ response' = Unhandled("RequestException")
    /\ UNCHANGED <<api_key, request, user_message, payload, post_calls, upstream>>

\* requests.post returns a response.
chat_response ==
    /\ pc = "calling"
    /\ ~IsExc(upstream)
    /\ pc' = "done"
    /\ response' = HandleResponse(upstream)
    /\ UNCHANGED <<api_key, request, user_message, payload, post_calls, upstream>>

\* The response is sent; nothing of the request outlives it.
chat_return ==
    /\ pc = "done"
    /\ pc' = "idle"
    /\ request' = NoRequest
    /\ user_message' = <<>>
    /\ payload' = NoPayload
    /\ post_calls' = 0
    /\ upstream' = NoUpstream
    /\ response' = NoResponse
    /\ UNCHANGED api_key

Next ==
    \/ chat_guards
    \/ chat_timeout
    \/ chat_connection_error
    \/ chat_request_exception
    \/ chat_response
    \/ chat_return

Spec == Init /\ [][Next]_vars

---------------------------------------------------------------------------
\* Vocabulary of the properties

\* A key is configured: OPENROUTER_API_KEY is set and not empty.
KeyConfigured == api_key \notin {None, JStr(<<>>)}

\* The body is a JSON object.
IsObject(raw) == raw.parsed /\ raw.value.t = "dict"

HasMessage(raw) == IsObject(raw) /\ KeyIndices(raw.value.v, "message") # {}

MessageValue(raw) == DictGet(raw.value, "message", JStr(<<>>))

\* The body is a JSON object whose message is a string.
SendsString(raw) == HasMessage(raw) /\ MessageValue(raw).t = "str"

\* The characters of that string.
SentText(raw) == MessageValue(raw).v

\* Every character is whitespace (so is the empty text).
IsSpace(c) ==
    \/ c \in 9..13
    \/ c \in 28..32
    \/ c \in {133, 160, 5760}
    \/ c \in 8192..8202
    \/ c \in {8232, 8233, 8239, 8287, 12288}

Blank(text) == \A i \in 1..Len(text) : IsSpace(text[i])

IsResponse(u) == "status_code" \in DOMAIN u

\* The upstream answers with a 2xx status.
Success(u) == IsResponse(u) /\ u.status_code \in 200..299

\* The upstream answers with a 2xx status and a body whose
\* choices[0].message.content is the string r.
CarriesReply(u, r) == Success(u) /\ u.parsed /\ u.value = Content(JStr(r))

\* What is at choices[0].message.content of the upstream body (or the
\* exception the walk to it raises).
ReplyPath(u) ==
    GetItemStr(
        GetItemStr(GetItemInt(GetItemStr(ResponseJson(u), "choices"), 0), "message"),
        "content")

HasReplyText(u) == ~IsExc(ReplyPath(u)) /\ ReplyPath(u).t = "str"

IsError(resp, status) == resp.status = status /\ DOMAIN resp.body = {"error"}

\* The request passed the key check and the four body checks, as stated in
\* the specification: JSON object, string message, not blank, within the limit.
ChecksPass ==
    /\ KeyConfigured
    /\ SendsString(request)
    /\ ~Blank(SentText(request))
    /\ Len(strip(SentText(request))) <= MAX_MESSAGE_LENGTH

---------------------------------------------------------------------------
\* C1: with no API key configured (unset or empty), every POST /chat ends
\* with status 500 and an {error} body, and no upstream call is made,
\* whatever the request body.
C1_NoKeyAlways500 ==
    ~KeyConfigured =>
        /\ post_calls = 0
        /\ pc # "calling"
        /\ pc = "done" => IsError(response, 500)

\* C1 witness: an empty key, a fully valid message and an upstream ready to
\* reply; the call ended 500.
C1_Witness ==
    /\ pc = "done"
    /\ api_key = JStr(<<>>)
    /\ request = Parsed(JDict(<< <<"message", JStr(<<97>>)>> >>))
    /\ CarriesReply(upstream, <<104, 105>>)
    /\ IsError(response, 500)

\* C2 as stated: with a key and an upstream that succeeds with reply text r,
\* every non-empty message string within the limit yields 200 {reply: r}.
C2_AnyNonEmptyString ==
    \A r \in ReplyTexts :
        (/\ pc = "done"
         /\ KeyConfigured
         /\ SendsString(request)
         /\ Len(SentText(request)) > 0
         /\ Len(SentText(request)) <= MAX_MESSAGE_LENGTH
         /\ CarriesReply(upstream, r))
        => response = ReplyResponse(r)

\* C2 amended: with a key and an upstream that succeeds with a reply text r
\* that is not blank, every message string whose trimmed form is not empty
\* and at most 2000 characters long yields 200 {reply: r trimmed}.
C2_TrimmedMessageGetsTrimmedReply ==
    \A r \in ReplyTexts :
        (/\ pc = "done"
         /\ KeyConfigured
         /\ SendsString(request)
         /\ ~Blank(SentText(request))
         /\ Len(strip(SentText(request))) <= MAX_MESSAGE_LENGTH
         /\ ~Blank(r)
         /\ CarriesReply(upstream, r))
        => /\ response.status = 200
           /\ DOMAIN response.body = {"reply"}
           /\ response.body.reply = strip(r)
           /\ post_calls = 1

\* C2 witness: a padded message of exactly 2000 characters once trimmed, a
\* padded reply; the call ended 200 with the trimmed reply.
C2_Witness ==
    /\ pc = "done"
    /\ KeyConfigured
    /\ request = Parsed(JDict(<< <<"message",
                    JStr(<<13>> \o Rep(97, MAX_MESSAGE_LENGTH) \o <<32>>)>> >>))
    /\ CarriesReply(upstream, <<32, 104, 105, 10>>)
    /\ response = ReplyResponse(<<104, 105>>)

\* C3 as stated: every message string longer than 2000 characters yields 400
\* and no upstream call.
C3_RawLengthOver ==
    (/\ pc # "idle"
     /\ KeyConfigured
     /\ SendsString(request)
     /\ Len(SentText(request)) > MAX_MESSAGE_LENGTH)
    => /\ pc = "done"
       /\ response.status = 400
       /\ post_calls = 0

\* C3 amended: every message string whose trimmed form is longer than 2000
\* characters yields 400 and no upstream call.
C3_TrimmedLengthOver ==
    (/\ pc # "idle"
     /\ KeyConfigured
     /\ SendsString(request)
     /\ Len(strip(SentText(request))) > MAX_MESSAGE_LENGTH)
    => /\ pc = "done"
       /\ IsError(response, 400)
       /\ post_calls = 0

\* C3 witness: 2001 characters after trimming, an upstream ready to reply;
\* the call ended 400.
C3_Witness ==
    /\ pc = "done"
    /\ KeyConfigured
    /\ request = Parsed(JDict(<< <<"message",
                    JStr(<<32>> \o Rep(97, MAX_MESSAGE_LENGTH + 1))>> >>))
    /\ CarriesReply(upstream, <<104, 105>>)
    /\ IsError(response, 400)
    /\ post_calls = 0

\* C4: every message string whose trimmed form is empty (the empty string
\* and every all-whitespace string) yields 400 and no upstream call.
C4_BlankMessage400 ==
    (/\ pc # "idle"
     /\ KeyConfigured
     /\ SendsString(request)
     /\ Blank(SentText(request)))
    => /\ pc = "done"
       /\ IsError(response, 400)
       /\ post_calls = 0

\* C4 witness: the message "\r " (a carriage return and a space), an
\* upstream ready to reply; the call ended 400.
C4_Witness ==
    /\ pc = "done"
    /\ KeyConfigured
    /\ request = Parsed(JDict(<< <<"message", JStr(<<13, 32>>)>> >>))
    /\ CarriesReply(upstream, <<104, 105>>)
    /\ IsError(response, 400)
    /\ post_calls = 0

\* C5: with a key, every body that does not parse as a JSON object (not
\* JSON, or JSON of another type) yields 400 "Request body must be JSON" and
\* no upstream call.
C5_NonObjectBody400 ==
    (/\ pc # "idle"
     /\ KeyConfigured
     /\ ~IsObject(request))
    => /\ pc = "done"
       /\ response = ErrorResponse(400, "Request body must be JSON.")
       /\ post_calls = 0

\* C6: the checks run in the order key, body shape, field type, emptiness,
\* length, and the first failing one decides: for every JSON object body
\* (the empty object included) a non-string message yields 400 "must be a
\* string", else a missing or blank message yields 400 "cannot be empty",
\* else a trimmed length above 2000 yields 400 naming the limit.
C6_OrderedChecks ==
    pc = "done" =>
        /\ ~KeyConfigured => IsError(response, 500)
        /\ (KeyConfigured /\ IsObject(request)) =>
             IF HasMessage(request) /\ MessageValue(request).t # "str"
             THEN response = ErrorResponse(400, "The 'message' field must be a string.")
             ELSE IF Blank(MessageValue(request).v)
             THEN response = ErrorResponse(400, "Message cannot be empty.")
             ELSE IF Len(strip(MessageValue(request).v)) > MAX_MESSAGE_LENGTH
             THEN response = ErrorResponse(400, "Message exceeds the 2000-character limit.")
             ELSE post_calls = 1

\* C7 as stated: for a validated request a failing upstream call is
\* classified: timeout 504, connection failure 502, 429 the rate-limit 502,
\* 401/403 the authorisation 502, any other non-2xx status the generic 502
\* with the status code; only the timeout gives 504.
C7_AnyNonSuccessStatus ==
    (pc = "done" /\ post_calls = 1) =>
        /\ upstream = Raise("Timeout") =>
             response = ErrorResponse(504,
                 "The AI service took too long to respond. Please try again.")
        /\ upstream = Raise("ConnectionError") =>
             response = ErrorResponse(502,
                 "Could not reach the AI service. Check your internet connection.")
        /\ (IsResponse(upstream) /\ ~Success(upstream)) =>
             response =
               IF upstream.status_code = 429
               THEN ErrorResponse(502,
                        "API rate limit reached. Please wait a moment and try again.")
               ELSE IF upstream.status_code \in {401, 403}
               THEN ErrorResponse(502, "API key is invalid or unauthorised.")
               ELSE ErrorResponse(502, "AI service returned an error (HTTP "
                        \o ToString(upstream.status_code) \o ").")
        /\ response.status = 504 => upstream = Raise("Timeout")

\* C7 amended: the same, with "any other non-success status" read as any
\* other status from 400 to 599.
C7_ErrorStatusClassified ==
    (pc = "done" /\ post_calls = 1) =>
        /\ upstream = Raise("Timeout") =>
             response = ErrorResponse(504,
                 "The AI service took too long to respond. Please try again.")
        /\ upstream = Raise("ConnectionError") =>
             response = ErrorResponse(502,
                 "Could not reach the AI service. Check your internet connection.")
        /\ (IsResponse(upstream) /\ upstream.status_code \in 400..599) =>
             response =
               IF upstream.status_code = 429
               THEN ErrorResponse(502,
                        "API rate limit reached. Please wait a moment and try again.")
               ELSE IF upstream.status_code \in {401, 403}
               THEN ErrorResponse(502, "API key is invalid or unauthorised.")
               ELSE ErrorResponse(502, "AI service returned an error (HTTP "
                        \o ToString(upstream.status_code) \o ").")
        /\ response.status = 504 => upstream = Raise("Timeout")

\* C7 witness: a validated request, the upstream answered 403; the call
\* ended 502 with the authorisation message.
C7_Witness ==
    /\ pc = "done"
    /\ post_calls = 1
    /\ IsResponse(upstream)
    /\ upstream.status_code = 403
    /\ response = ErrorResponse(502, "API key is invalid or unauthorised.")

\* C8: for a validated request answered with a 2xx status, a body without a
\* string at choices[0].message.content yields 502 "unexpected response",
\* and a reply text that trims to empty yields 502 "empty response".
C8_BadShape502 ==
    (pc = "done" /\ post_calls = 1 /\ Success(upstream)) =>
        /\ ~HasReplyText(upstream) =>
             response = ErrorResponse(502,
                 "Received an unexpected response from the AI service.")
        /\ (HasReplyText(upstream) /\ Blank(ReplyPath(upstream).v)) =>
             response = ErrorResponse(502,
                 "The AI returned an empty response. Please try rephrasing.")

\* C9: every call ends either 200 with a body holding only a non-empty
\* trimmed reply, or 400/500/502/504 with a body holding only an error
\* string; none ends in an unhandled exception.
C9_TwoShapes ==
    pc = "done" =>
        \/ /\ response.status = 200
           /\ DOMAIN response.body = {"reply"}
           /\ response.body.reply # <<>>
           /\ strip(response.body.reply) = response.body.reply
        \/ /\ response.status \in {400, 500, 502, 504}
           /\ DOMAIN response.body = {"error"}

\* C10: the upstream call is attempted at most once per request: exactly
\* once if and only if the key check and the four body checks passed; it
\* precedes every 502, 504 and 200 response; and after it fails the handler
\* returns without a second attempt.
C10_AtMostOneCall ==
    /\ post_calls <= 1
    /\ pc # "idle" => (post_calls = 1 <=> ChecksPass)
    /\ pc = "calling" => (post_calls = 1 /\ response = NoResponse)
    /\ (pc = "done" /\ response.status \in {200, 502, 504}) => post_calls = 1

\* C10 witness: a validated request whose upstream call timed out; the
\* handler returned 504 after one call.
C10_Witness ==
    /\ pc = "done"
    /\ ChecksPass
    /\ upstream = Raise("Timeout")
    /\ response.status = 504
    /\ post_calls = 1

====
